---- MODULE Spec2Model ----
(***************************************************************************)
(* Knowledge base of Villa-RAG: document ingestion (extract, split, embed, *)
(* store) and retrieval (embed the query, rank the stored chunks).         *)
(*                                                                         *)
(* Texts are sequences of character codes.  A vector is a record: dim is   *)
(* its number of components, dir its direction (the components that are   *)
(* not zero, integers), src says which code built it ("model": returned by *)
(* the embedding backend, "hash": createHashBasedEmbedding) and hash is    *)
(* the integer hash it was seeded with.                                    *)
(***************************************************************************)
EXTENDS Integers, Sequences, FiniteSets, TLC

\* ------------------------------------------------------------ bounds
\* Size of a chunk and overlap of adjacent chunks, in characters: the
\* splitter's chunkSize: 1000 and chunkOverlap: 200, scaled to the texts
\* of the model.
ChunkSize == 4
ChunkOverlap == 1
\* Rows the KnowledgeDocument table ever receives.
MaxDocs == 1

\* ------------------------------------------------------------ constants
\* new Array(384): the dimensionality of the hash-based embedding, and of
\* the three sentence-transformers models.
EmbeddingDim == 384
\* searchSimilar(query, limit = 5, similarityThreshold = 0.1, userId?)
DefaultLimit == 5
\* The search tool calls searchSimilar(query, limit, 0.2, userId);
\* similarities are percentages in the model (0.2 is 20).
ToolThreshold == 20

NL == 10
SP == 32
DOT == 46

\* ------------------------------------------------------------ helpers
Min(a, b) == IF a <= b THEN a ELSE b

RECURSIVE Concat(_)
\* The concatenation of a sequence of sequences (Array.prototype.push(...x)).
Concat(ss) == IF ss = <<>> THEN <<>> ELSE Head(ss) \o Concat(Tail(ss))

RECURSIVE SortedSeq(_)
\* The elements of a finite set of integers, ascending.
SortedSeq(S) ==
  IF S = {} THEN <<>>
  ELSE LET m == CHOOSE x \in S : \A y \in S : x <= y
       IN <<m>> \o SortedSeq(S \ {m})

\* ------------------------------------------------------------ splitter
\* RecursiveCharacterTextSplitter({chunkSize, chunkOverlap, separators}),
\* keepSeparator at its default (true).
Separators == << <<NL, NL>>, <<NL>>, <<DOT, SP>>, <<SP>>, <<>> >>

IsSpace(c) == c \in {SP, NL}

RECURSIVE TrimLeft(_)
TrimLeft(t) == IF t # <<>> /\ IsSpace(Head(t)) THEN TrimLeft(Tail(t)) ELSE t

RECURSIVE TrimRight(_)
TrimRight(t) ==
  IF t # <<>> /\ IsSpace(t[Len(t)]) THEN TrimRight(SubSeq(t, 1, Len(t) - 1)) ELSE t

\* String.prototype.trim
Trim(t) == TrimRight(TrimLeft(t))

\* String.prototype.includes
Includes(text, sep) ==
  \E i \in 1..(Len(text) - Len(sep) + 1) : SubSeq(text, i, i + Len(sep) - 1) = sep

\* splitOnSeparator with keepSeparator: text.split(/(?=sep)/) cuts before
\* every occurrence of sep but the one at the start, text.split("") cuts
\* between all characters; empty pieces are dropped.
SplitOnSeparator(text, sep) ==
  LET cuts == IF sep = <<>> THEN 2..Len(text)
              ELSE {i \in 2..(Len(text) - Len(sep) + 1) :
                      SubSeq(text, i, i + Len(sep) - 1) = sep}
      bs == SortedSeq({1} \cup cuts)
      piece(k) == SubSeq(text, bs[k],
                         IF k < Len(bs) THEN bs[k + 1] - 1 ELSE Len(text))
  IN IF text = <<>> THEN <<>> ELSE [k \in 1..Len(bs) |-> piece(k)]

\* joinDocs(docs, ""): the joined text trimmed, or nothing when it is empty.
JoinDocs(docs) == LET t == Trim(Concat(docs)) IN IF t = <<>> THEN <<>> ELSE <<t>>

RECURSIVE Shift(_, _, _)
\* The while loop of mergeSplits: drop leading pieces of the current
\* document until the overlap fits and the next piece fits.
Shift(cur, total, len) ==
  IF total > ChunkOverlap \/ (total + len > ChunkSize /\ total > 0)
  THEN Shift(Tail(cur), total - Len(Head(cur)), len)
  ELSE [cur |-> cur, total |-> total]

RECURSIVE MergeFrom(_, _, _, _, _)
MergeFrom(splits, k, docs, cur, total) ==
  IF k > Len(splits) THEN docs \o JoinDocs(cur)
  ELSE LET d == splits[k]
           full == total + Len(d) > ChunkSize /\ cur # <<>>
           docs2 == IF full THEN docs \o JoinDocs(cur) ELSE docs
           sh == IF full THEN Shift(cur, total, Len(d))
                 ELSE [cur |-> cur, total |-> total]
       IN MergeFrom(splits, k + 1, docs2, Append(sh.cur, d), sh.total + Len(d))

\* mergeSplits(splits, "")
MergeSplits(splits) == MergeFrom(splits, 1, <<>>, <<>>, 0)

\* The separator _splitText picks: the first of the list the text holds,
\* the empty separator ending the search.
RECURSIVE PickSeparator(_, _, _)
PickSeparator(text, seps, i) ==
  IF i > Len(seps) THEN [sep |-> seps[Len(seps)], rest |-> <<>>, more |-> FALSE]
  ELSE IF seps[i] = <<>> THEN [sep |-> <<>>, rest |-> <<>>, more |-> FALSE]
  ELSE IF Includes(text, seps[i])
       THEN [sep |-> seps[i], rest |-> SubSeq(seps, i + 1, Len(seps)), more |-> TRUE]
       ELSE PickSeparator(text, seps, i + 1)

RECURSIVE SplitTextRec(_, _)
RECURSIVE SplitLoop(_, _, _, _, _)
\* The loop of _splitText over the pieces: pieces shorter than the chunk
\* size are collected and merged, a longer one is split again with the
\* separators that are left (or kept whole when none is).
SplitLoop(splits, k, final, good, pk) ==
  IF k > Len(splits)
  THEN final \o (IF good # <<>> THEN MergeSplits(good) ELSE <<>>)
  ELSE LET s == splits[k]
       IN IF Len(s) < ChunkSize
          THEN SplitLoop(splits, k + 1, final, Append(good, s), pk)
          ELSE LET merged == IF good # <<>> THEN MergeSplits(good) ELSE <<>>
                   sub == IF pk.more THEN SplitTextRec(s, pk.rest) ELSE <<s>>
               IN SplitLoop(splits, k + 1, final \o merged \o sub, <<>>, pk)

SplitTextRec(text, seps) ==
  LET pk == PickSeparator(text, seps, 1)
  IN SplitLoop(SplitOnSeparator(text, pk.sep), 1, <<>>, <<>>, pk)

\* SplitText that gives the empty text as one chunk.
SplitTextWhole(text) == IF text = <<>> THEN << <<>> >> ELSE SplitTextRec(text, Separators)

\* textSplitter.splitText(content)
SplitText(text) == SplitTextRec(text, Separators)

\* ------------------------------------------------------------ embedder
\* The three models of createChunks and embedQuery, in their order.
Models == << "sentence-transformers/paraphrase-MiniLM-L6-v2",
             "sentence-transformers/all-MiniLM-L6-v2",
             "sentence-transformers/paraphrase-multilingual-MiniLM-L12-v2" >>

\* 32-bit integers as two 16-bit halves (the integers of the checker are
\* 32 bits wide themselves, so 31 * hash is not computed in one piece).
Half == 2 ^ 16

\* hash << 5
Shl5(u) == [lo |-> (u.lo * 32) % Half,
            hi |-> (u.hi * 32 + (u.lo * 32) \div Half) % Half]

\* SubAdd without the subtraction: (a + c) modulo 2^32.
AddOnly(a, b, c) ==
  LET lo == a.lo + c
      hi == a.hi + (lo \div Half)
  IN [lo |-> lo % Half, hi |-> hi % Half]

\* (a - b + c) modulo 2^32, for a character code c
SubAdd(a, b, c) ==
  LET lo == a.lo - b.lo + c
      hi == a.hi - b.hi + (lo \div Half)
  IN [lo |-> lo % Half, hi |-> hi % Half]

\* The value of 32 bits read as a signed integer (hash & hash).
ToInt32(u) == IF u.hi >= Half \div 2 THEN (u.hi - Half) * Half + u.lo
              ELSE u.hi * Half + u.lo

RECURSIVE HashFrom(_, _, _)
HashFrom(text, i, u) ==
  IF i > Len(text) THEN u
  ELSE HashFrom(text, i + 1, SubAdd(Shl5(u), u, text[i]))

\* The hash loop of createHashBasedEmbedding:
\* hash = (hash << 5) - hash + charCode; hash = hash & hash.
HashOf(text) == ToInt32(HashFrom(text, 1, [lo |-> 0, hi |-> 0]))

\* Directions of the vectors of the model, all of norm 5, so that every
\* cosine is a whole percentage.
Dirs == << <<5, 0>>, <<0, 5>>, <<-3, 4>>, <<4, -3>>, <<-5, 0>> >>

\* The components (Math.sin(hash + i) * 43758.5453) % 1 are a function of
\* the hash alone; sin is not computed here, the direction stands for them.
HashDir(h) == Dirs[(h % Len(Dirs)) + 1]

\* createHashBasedEmbedding(text)
CreateHashBasedEmbedding(text) ==
  LET h == HashOf(text)
  IN [dim |-> EmbeddingDim, dir |-> HashDir(h), src |-> "hash", hash |-> h]

ModelVec(dim, dir) == [dim |-> dim, dir |-> dir, src |-> "model", hash |-> 0]

\* What one featureExtraction call can do: throw, or return an array, flat
\* (number[]) or nested (number[][]), of any length.
Failed == [ok |-> FALSE, nested |-> FALSE, rows |-> <<>>]
Responses ==
  { Failed,
    [ok |-> TRUE, nested |-> FALSE, rows |-> <<ModelVec(EmbeddingDim, <<3, 4>>)>>],
    [ok |-> TRUE, nested |-> TRUE,
     rows |-> <<ModelVec(EmbeddingDim, <<3, 4>>), ModelVec(EmbeddingDim, <<4, 3>>)>>],
    [ok |-> TRUE, nested |-> FALSE, rows |-> <<ModelVec(2 * EmbeddingDim, <<0, 5>>)>>] }

\* The outcomes of the calls for one text, one per model.
Backends == [1..Len(Models) -> Responses]

\* Every call of the backend throws.
AllFail(backend) == \A k \in 1..Len(Models) : ~backend[k].ok

\* Array.isArray(embedding[0]) ? embedding[0] : embedding
Flatten(e) == IF e.nested THEN e.rows[1] ELSE Head(e.rows)

RECURSIVE TryModelsNoBreak(_, _, _)
\* TryModels without the break: every model is called, the last success wins.
TryModelsNoBreak(backend, k, called) ==
  IF k > Len(Models)
  THEN LET good == {j \in 1..Len(Models) : backend[j].ok}
       IN IF good = {} THEN [success |-> FALSE, called |-> called, raw |-> Failed]
          ELSE [success |-> TRUE, called |-> called,
                raw |-> backend[CHOOSE j \in good : \A i \in good : i <= j]]
  ELSE TryModelsNoBreak(backend, k + 1, Append(called, k))

RECURSIVE TryModels(_, _, _)
\* for (const model of models) { try { featureExtraction } catch { continue } }
\* called: the models called, in the order of the calls.
TryModels(backend, k, called) ==
  IF k > Len(Models) THEN [success |-> FALSE, called |-> called, raw |-> Failed]
  ELSE IF backend[k].ok
       THEN [success |-> TRUE, called |-> Append(called, k), raw |-> backend[k]]
       ELSE TryModels(backend, k + 1, Append(called, k))

\* CreateChunk whose fallback chunk carries no fallback flag.
CreateChunkUnflagged(text, i, n, filename, backend) ==
  LET r == TryModels(backend, 1, <<>>)
  IN [chunk |->
        [content |-> text,
         embedding |-> IF r.success THEN Flatten(r.raw)
                       ELSE CreateHashBasedEmbedding(text),
         chunkIndex |-> i,
         metadata |-> [filename |-> filename, chunkLength |-> Len(text),
                       totalChunks |-> n, fallback |-> FALSE]],
      called |-> r.called, exhausted |-> AllFail(backend)]

\* One turn of the loop of createChunks: the chunk of text number i (from
\* 0) of n, the models it called, and whether every call threw.
CreateChunk(text, i, n, filename, backend) ==
  LET r == TryModels(backend, 1, <<>>)
  IN [chunk |->
        [content |-> text,
         embedding |-> IF r.success THEN Flatten(r.raw)
                       ELSE CreateHashBasedEmbedding(text),
         chunkIndex |-> i,
         metadata |-> [filename |-> filename, chunkLength |-> Len(text),
                       totalChunks |-> n, fallback |-> ~r.success]],
      called |-> r.called, exhausted |-> AllFail(backend)]

\* embedQuery(query)
EmbedQuery(query, backend) ==
  LET r == TryModels(backend, 1, <<>>)
  IN [embedding |-> IF r.success THEN Flatten(r.raw)
                    ELSE CreateHashBasedEmbedding(query),
      called |-> r.called, fallback |-> ~r.success,
      exhausted |-> AllFail(backend)]

\* ------------------------------------------------------------ similarity
Dot(a, b) == a[1] * b[1] + a[2] * b[2]

\* The integer square root.
Norm(a) == CHOOSE r \in 0..(Dot(a, a)) : r * r <= Dot(a, a) /\ (r + 1) * (r + 1) > Dot(a, a)

\* 1 - (embedding <=> query), the cosine similarity, as a percentage.
Similarity(a, b) == (100 * Dot(a.dir, b.dir)) \div (Norm(a.dir) * Norm(b.dir))

\* ------------------------------------------------------------ inputs
Users == {"U1", "U2"}
\* searchSimilar's userId is optional: the call without it.
NoUser == ""
\* The name of a file of each type: "t", "p", "i" and "d".
FileName(fileType) ==
  CASE fileType = "txt" -> <<116>>
    [] fileType = "pdf" -> <<112>>
    [] fileType = "image" -> <<105>>
    [] OTHER -> <<100>>
Titles == {"Handbook"}
\* "", "ab" and "ab cd"
Buffers == {<<>>, <<97, 98>>, <<97, 98, SP, 99, 100>>}
FileTypes == {"pdf", "txt", "image", "docx"}
\* What the PDF parser or the OCR worker does with a buffer.
Extractions == {"ready", "error"}
\* The files uploaded: a text file, empty or of two chunks; a PDF, an image
\* and a file of another type of one chunk; a PDF without text.
Uploads ==
  {u \in [buffer : Buffers, fileType : FileTypes, extraction : Extractions] :
     /\ (u.fileType \in {"txt", "docx"} => u.extraction = "ready")
     /\ (u.fileType # "txt" => Len(u.buffer) <= 2)
     /\ (u.fileType # "txt" /\ (u.fileType # "pdf" \/ u.extraction # "ready")
           => u.buffer # <<>>)
     /\ (u.fileType = "txt" => Len(u.buffer) # 2)}
Queries == {<<97, 98>>}
Limits == {1, DefaultLimit}
Thresholds == {ToolThreshold, 60}

\* The ids a request may name: those the table can hand out, and one more.
DocumentIds == 1..(MaxDocs + 1)
\* The texts the embedder is tried on alone: "", "ab", "cd", and two whose
\* hash leaves 32 bits, "abcdefgh" and "zzzzzzzz".
EmbedTexts == {<<>>, <<97, 98>>, <<99, 100>>,
               <<97, 98, 99, 100, 101, 102, 103, 104>>,
               <<122, 122, 122, 122, 122, 122, 122, 122>>}

Procs == {"p1", "p2"}

VARIABLES
  documents,   \* table KnowledgeDocument, rows in insertion order
  chunkRows,   \* table DocumentChunk, rows in insertion order
  nextId,      \* the id the next KnowledgeDocument row gets
  pc,          \* pc[p]: where request p is in its operation
  args,        \* args[p]: the operation and its arguments
  work,        \* work[p]: the locals of the operation
  ret,         \* ret[p]: what the operation returned or raised
  probe        \* the embedder tried alone: its input and what it did

vars == <<documents, chunkRows, nextId, pc, args, work, ret, probe>>

\* The request an endpoint got: the user of its session (NoUser without a
\* session) and, for the upload, whether the form holds a file, the MIME
\* type and the size in bytes of the file.
NoRequest == [method |-> "", session |-> NoUser, present |-> FALSE,
              type |-> "", size |-> 0]
NoArgs == [op |-> "none", buffer |-> <<>>, filename |-> <<>>, fileType |-> "",
           title |-> "", userId |-> NoUser, documentId |-> 0, query |-> <<>>,
           limit |-> 0, threshold |-> 0, request |-> NoRequest]
NoDocument == [id |-> 0, title |-> "", filename |-> <<>>, fileType |-> "",
               content |-> <<>>, fileSize |-> 0, uploadedAt |-> 0, userId |-> NoUser]
\* document: the row reprocessDocument selected; docId: the id of the row the
\* chunks go to; i: the chunk the insert loop is at; exhausted[i]: every
\* call of the backend for chunk i threw; removed: the chunk rows the delete
\* of reprocessDocument removed; before: the chunk rows the document had when
\* reprocessDocument selected it.
NoWork == [content |-> <<>>, texts |-> <<>>, chunks |-> <<>>, i |-> 0, docId |-> 0,
           document |-> NoDocument, removed |-> 0, before |-> <<>>,
           embedding |-> ModelVec(0, <<0, 0>>), exhausted |-> <<>>]
\* outcome: "ok" or "error"; error: the message of the error thrown; logged:
\* the message of the error the catch wrote to the console; deleted and
\* cascaded: the document rows and the chunk rows a delete removed.
\* What an endpoint or the search tool answers: the HTTP status and the JSON
\* body (error, documents) of an endpoint, the object the tool returns.
NoResponse == [status |-> 0, success |-> FALSE, message |-> "", results |-> <<>>,
               totalChunks |-> 0, error |-> "", documents |-> <<>>]
NoRet == [outcome |-> "none", error |-> "", logged |-> "", result |-> <<>>,
          deleted |-> 0, cascaded |-> 0, response |-> NoResponse]

NoProbe == [path |-> "none", text |-> <<>>,
            backend |-> [k \in 1..Len(Models) |-> Failed],
            embedding |-> ModelVec(0, <<0, 0>>), called |-> <<>>, fallback |-> FALSE]

Init ==
  /\ probe = NoProbe
  /\ documents = <<>>
  /\ chunkRows = <<>>
  /\ nextId = 1
  /\ pc = [p \in Procs |-> "idle"]
  /\ args = [p \in Procs |-> NoArgs]
  /\ work = [p \in Procs |-> NoWork]
  /\ ret = [p \in Procs |-> NoRet]

\* ------------------------------------------------------------ store
DocIds == {documents[k].id : k \in 1..Len(documents)}

\* The row of the document with this id (ids are unique).
DocOf(id) == documents[CHOOSE k \in 1..Len(documents) : documents[k].id = id]

\* OwnedBy without the condition on the owner.
OwnedByAnyone(d, id, userId) == d.id = id

\* ${knowledgeDocument.id} = ${documentId} AND ${knowledgeDocument.userId} = ${userId}
OwnedBy(d, id, userId) == d.id = id /\ d.userId = userId

\* DELETE FROM "KnowledgeDocument" WHERE ...: the rows left.
DocumentsWithout(id, userId) ==
  LET keep(d) == ~OwnedBy(d, id, userId) IN SelectSeq(documents, keep)

\* CascadeDelete without the cascade.
NoCascade(rows, gone) == rows

\* ON DELETE cascade: the chunk rows left once the documents in gone are deleted.
CascadeDelete(rows, gone) ==
  LET keep(c) == c.documentId \notin gone IN SelectSeq(rows, keep)

\* ChunksWithout that deletes nothing.
ChunksKept(id) == chunkRows

\* DELETE FROM "DocumentChunk" WHERE documentId = id: the rows left.
ChunksWithout(id) ==
  LET keep(c) == c.documentId # id IN SelectSeq(chunkRows, keep)

\* References without the constraint: any documentId is accepted.
ReferencesAny(documentId) == TRUE

\* FOREIGN KEY ("documentId") REFERENCES "KnowledgeDocument"("id"): the check
\* the engine makes when a chunk row is inserted.
References(documentId) == documentId \in DocIds

\* The row addDocument and reprocessDocument insert for a chunk.
ChunkRow(documentId, chunk) ==
  [documentId |-> documentId, content |-> chunk.content,
   embedding |-> chunk.embedding, chunkIndex |-> chunk.chunkIndex,
   metadata |-> chunk.metadata]

RECURSIVE Orderings(_, _, _)
\* ORDER BY key DESC LIMIT n over the rows S, key[k] the key of row k: every
\* sequence the engine may return (the order of rows with equal keys is not
\* specified).
Orderings(S, key, n) ==
  IF S = {} \/ n <= 0 THEN {<<>>}
  ELSE UNION { {<<m>> \o t : t \in Orderings(S \ {m}, key, n - 1)} :
               m \in {x \in S : \A y \in S : key[x] >= key[y]} }

\* ------------------------------------------------------------ errors
AddFailed == "Failed to add document to knowledge base"
SearchFailed == "Failed to search knowledge base"
ReprocessFailed == "Failed to reprocess document"
NotFound == "Document not found or access denied"
Unsupported == "Unsupported file type"
ExtractionFailed == "Failed to process file"
\* An error of the storage engine: the statement did not run.
StatementFailed == "statement failed"
\* The foreign key of DocumentChunk.documentId refused the row.
ForeignKey == "violates foreign key constraint"
\* The distance operator on vectors of different dimensions.
Dimensions == "different vector dimensions"


\* ------------------------------------------------------------ extraction
\* The text processPDF resolves with when the PDF holds no text: `[PDF
\* Content] - This PDF appears to be empty ... File size: ${buffer.length}
\* bytes.`, its literal part shortened to "P".
PdfEmpty(size) == <<80, 48 + size>>

\* processPDF(buffer): the buffer stands for the text runs of the PDF.
ProcessPDF(buffer, extraction) ==
  CASE extraction = "error" -> [ok |-> FALSE, content |-> <<>>, error |-> ExtractionFailed]
    [] OTHER -> [ok |-> TRUE, error |-> "",
                 content |-> IF Trim(buffer \o <<SP, NL>>) = <<>>
                             THEN PdfEmpty(Len(buffer))
                             ELSE Trim(buffer \o <<SP, NL>>)]

\* processImage(buffer): the buffer stands for the text the OCR worker reads.
ProcessImage(buffer, extraction) ==
  IF extraction = "ready" THEN [ok |-> TRUE, content |-> buffer, error |-> ""]
  ELSE [ok |-> FALSE, content |-> <<>>, error |-> ExtractionFailed]

\* The switch of processDocument: the extracted content, or the failure.
ExtractContent(buffer, fileType, extraction) ==
  CASE fileType = "pdf" -> ProcessPDF(buffer, extraction)
    [] fileType = "txt" -> [ok |-> TRUE, content |-> buffer, error |-> ""]
    [] fileType = "image" -> ProcessImage(buffer, extraction)
    [] OTHER -> [ok |-> FALSE, content |-> <<>>, error |-> Unsupported]

\* The content reprocessDocument writes: `This document (${filename}) needs
\* to be re-uploaded ...`, the literal parts shortened to "(" and ")".
Placeholder(filename) == <<40>> \o filename \o <<41>>

\* ------------------------------------------------------------ requests
Finish(p, r) ==
  /\ pc' = [pc EXCEPT ![p] = "done"]
  /\ ret' = [ret EXCEPT ![p] = r]

Ok(result) == [NoRet EXCEPT !.outcome = "ok", !.result = result]

\* catch (error) { console.error(..., error); throw new Error(message) }
Raise(message, error) ==
  [NoRet EXCEPT !.outcome = "error", !.error = message, !.logged = error]

\* The message the catch of the operation throws.
FailureOf(op) == IF op = "addDocument" THEN AddFailed ELSE ReprocessFailed

\* Where processDocument's caller goes on once the chunks are built.
AfterProcess(op) == IF op = "addDocument" THEN "insertDocument" ELSE "insertChunks"

\* addDocument(buffer, filename, fileType, title, userId), up to the split of
\* the extracted content in processDocument.
CallAddDocument(p, u, title, userId, request) ==
  LET buffer == u.buffer
      fileType == u.fileType
      filename == FileName(u.fileType)
      x == ExtractContent(buffer, fileType, u.extraction)
      texts == SplitText(x.content)
  IN /\ args' = [args EXCEPT ![p] =
                   [NoArgs EXCEPT !.op = "addDocument", !.buffer = buffer,
                      !.filename = filename, !.fileType = fileType,
                      !.title = title, !.userId = userId, !.request = request]]
     /\ IF x.ok
        THEN /\ work' = [work EXCEPT ![p] =
                           [NoWork EXCEPT !.content = x.content, !.texts = texts]]
             /\ pc' = [pc EXCEPT ![p] =
                         IF texts = <<>> THEN "insertDocument" ELSE "embed"]
             /\ UNCHANGED ret
        ELSE /\ Finish(p, Raise(AddFailed, x.error))
             /\ UNCHANGED work

\* A call of addDocument from anywhere.
AddDocument(p) ==
  /\ pc[p] = "idle"
  /\ nextId <= MaxDocs
  /\ \E u \in Uploads, title \in Titles, userId \in Users :
       CallAddDocument(p, u, title, userId, NoRequest)
  /\ UNCHANGED <<documents, chunkRows, nextId, probe>>

\* One turn of the loop of createChunks, for addDocument and reprocessDocument.
Embed(p) ==
  /\ pc[p] = "embed"
  /\ LET w == work[p]
         n == Len(w.texts)
         i == Len(w.chunks)
     IN \E c \in {CreateChunk(w.texts[i + 1], i, n, args[p].filename, backend) :
                     backend \in Backends} :
          /\ work' = [work EXCEPT ![p] =
                        [w EXCEPT !.chunks = Append(w.chunks, c.chunk),
                                  !.exhausted = Append(w.exhausted, c.exhausted)]]
          /\ pc' = [pc EXCEPT ![p] =
                      IF i + 1 = n THEN AfterProcess(args[p].op) ELSE "embed"]
  /\ UNCHANGED <<documents, chunkRows, nextId, args, ret, probe>>

\* db.insert(knowledgeDocument).values({...}).returning()
InsertDocument(p) ==
  /\ pc[p] = "insertDocument"
  /\ \E ok \in BOOLEAN :
       IF ok
       THEN /\ documents' = Append(documents,
                    [id |-> nextId, title |-> args[p].title,
                     filename |-> args[p].filename, fileType |-> args[p].fileType,
                     content |-> work[p].content, fileSize |-> Len(args[p].buffer),
                     uploadedAt |-> nextId, userId |-> args[p].userId])
            /\ nextId' = nextId + 1
            /\ work' = [work EXCEPT ![p].docId = nextId, ![p].i = 1]
            /\ IF work[p].chunks = <<>>
               THEN Finish(p, Ok(<<>>))
               ELSE pc' = [pc EXCEPT ![p] = "insertChunks"] /\ UNCHANGED ret
       ELSE /\ Finish(p, Raise(AddFailed, StatementFailed))
            /\ UNCHANGED <<documents, nextId, work>>
  /\ UNCHANGED <<chunkRows, args, probe>>

\* db.insert(documentChunk).values({...}) for the next chunk of the loop;
\* the foreign key refuses a chunk whose document is gone.
InsertChunk(p) ==
  /\ pc[p] = "insertChunks"
  /\ \E ok \in BOOLEAN :
       LET w == work[p] IN
       IF ok /\ References(w.docId)
       THEN /\ chunkRows' = Append(chunkRows, ChunkRow(w.docId, w.chunks[w.i]))
            /\ work' = [work EXCEPT ![p].i = w.i + 1]
            /\ IF w.i = Len(w.chunks)
               THEN Finish(p, Ok(<<>>))
               ELSE UNCHANGED <<pc, ret>>
       ELSE /\ Finish(p, Raise(FailureOf(args[p].op),
                               IF ok THEN ForeignKey ELSE StatementFailed))
            /\ UNCHANGED <<chunkRows, work>>
  /\ UNCHANGED <<documents, nextId, args, probe>>

\* deleteDocument(documentId, userId); deleted is the number of document
\* rows the statement removed.
DeleteDocument(p) ==
  /\ pc[p] = "idle"
  /\ \E documentId \in DocumentIds, userId \in Users :
       LET left == DocumentsWithout(documentId, userId)
           gone == DocIds \ {left[k].id : k \in 1..Len(left)}
       IN /\ args' = [args EXCEPT ![p] =
                        [NoArgs EXCEPT !.op = "deleteDocument",
                           !.documentId = documentId, !.userId = userId]]
          /\ documents' = left
          /\ chunkRows' = CascadeDelete(chunkRows, gone)
          /\ Finish(p, [Ok(<<>>) EXCEPT
                          !.deleted = Len(documents) - Len(left),
                          !.cascaded = Len(chunkRows) - Len(CascadeDelete(chunkRows, gone))])
  /\ UNCHANGED <<nextId, work, probe>>

\* getDocuments(userId): WHERE userId = ... ORDER BY uploadedAt DESC
GetDocuments(p) ==
  /\ pc[p] = "idle"
  /\ \E userId \in Users :
       LET S == {k \in 1..Len(documents) : documents[k].userId = userId}
           key(k) == documents[k].uploadedAt
       IN /\ args' = [args EXCEPT ![p] =
                        [NoArgs EXCEPT !.op = "getDocuments", !.userId = userId]]
          /\ \E order \in Orderings(S, [k \in S |-> key(k)], Len(documents)) :
               Finish(p, Ok([j \in 1..Len(order) |-> documents[order[j]]]))
  /\ UNCHANGED <<documents, chunkRows, nextId, work, probe>>

\* getDocumentChunks(documentId): WHERE documentId = ... ORDER BY chunkIndex
GetDocumentChunks(p) ==
  /\ pc[p] = "idle"
  /\ \E documentId \in DocumentIds :
       LET S == {k \in 1..Len(chunkRows) : chunkRows[k].documentId = documentId}
           key(k) == 0 - chunkRows[k].chunkIndex
       IN /\ args' = [args EXCEPT ![p] =
                        [NoArgs EXCEPT !.op = "getDocumentChunks",
                           !.documentId = documentId]]
          /\ \E order \in Orderings(S, [k \in S |-> key(k)], Len(chunkRows)) :
               Finish(p, Ok([j \in 1..Len(order) |-> chunkRows[order[j]]]))
  /\ UNCHANGED <<documents, chunkRows, nextId, work, probe>>

\* Candidates without the condition on the owner.
CandidatesAnyOwner(userId) ==
  {k \in 1..Len(chunkRows) : chunkRows[k].documentId \in DocIds}

\* The chunk rows the join of searchSimilar keeps before the similarity is
\* looked at: those of a document, of userId's documents when userId is given.
Candidates(userId) ==
  {k \in 1..Len(chunkRows) :
     /\ chunkRows[k].documentId \in DocIds
     /\ (userId # NoUser => DocOf(chunkRows[k].documentId).userId = userId)}

\* Matches with >= for >.
MatchesAtLeast(userId, q, threshold) ==
  {k \in Candidates(userId) : Similarity(chunkRows[k].embedding, q) >= threshold}

\* 1 - (embedding <=> query) > similarityThreshold
Matches(userId, q, threshold) ==
  {k \in Candidates(userId) : Similarity(chunkRows[k].embedding, q) > threshold}

\* The rows ranked, as searchSimilar returns them.
SearchResults(order, q) ==
  [j \in 1..Len(order) |->
     [chunk |-> chunkRows[order[j]],
      document |-> DocOf(chunkRows[order[j]].documentId),
      similarity |-> Similarity(chunkRows[order[j]].embedding, q)]]

\* The select of searchSimilar for the query vector q: what the call returns
\* or raises, ok telling whether the statement runs.
SelectSimilar(q, limit, threshold, userId, ok) ==
  LET sim(k) == Similarity(chunkRows[k].embedding, q)
  IN IF ok /\ \A k \in Candidates(userId) : chunkRows[k].embedding.dim = q.dim
     THEN {Ok(SearchResults(order, q)) :
             order \in Orderings(Matches(userId, q, threshold),
                                 [k \in Matches(userId, q, threshold) |-> sim(k)],
                                 limit)}
     ELSE {Raise(SearchFailed, IF ok THEN Dimensions ELSE StatementFailed)}

\* searchSimilar(query, limit, similarityThreshold, userId): embedQuery, then
\* the select.  The distance operator raises on vectors of different
\* dimensions, and the statement may fail as any statement may.
SearchSimilar(p) ==
  /\ pc[p] = "idle"
  /\ \E query \in Queries, limit \in Limits, threshold \in Thresholds,
        userId \in Users \cup {NoUser}, ok \in BOOLEAN :
     \E e \in {EmbedQuery(query, backend) : backend \in Backends} :
       LET q == e.embedding
       IN /\ args' = [args EXCEPT ![p] =
                        [NoArgs EXCEPT !.op = "searchSimilar", !.query = query,
                           !.limit = limit, !.threshold = threshold,
                           !.userId = userId]]
          /\ work' = [work EXCEPT ![p] =
                        [NoWork EXCEPT !.embedding = q,
                                       !.exhausted = <<e.exhausted>>]]
          /\ \E r \in SelectSimilar(q, limit, threshold, userId, ok) : Finish(p, r)
  /\ UNCHANGED <<documents, chunkRows, nextId, probe>>

\* reprocessDocument(documentId, userId), up to the end of its select.
ReprocessDocument(p) ==
  /\ pc[p] = "idle"
  /\ \E documentId \in DocumentIds, userId \in Users :
       LET found == {k \in 1..Len(documents) : OwnedBy(documents[k], documentId, userId)}
       IN IF found # {}
          THEN LET document == documents[CHOOSE k \in found : TRUE]
               IN /\ args' = [args EXCEPT ![p] =
                                [NoArgs EXCEPT !.op = "reprocessDocument",
                                   !.documentId = documentId, !.userId = userId,
                                   !.filename = document.filename]]
                  /\ work' = [work EXCEPT ![p] =
                                [NoWork EXCEPT !.docId = document.id,
                                               !.document = document,
                                               !.before = CascadeDelete(chunkRows,
                                                            DocIds \ {document.id})]]
                  /\ pc' = [pc EXCEPT ![p] = "deleteChunks"]
                  /\ UNCHANGED ret
          ELSE /\ args' = [args EXCEPT ![p] =
                             [NoArgs EXCEPT !.op = "reprocessDocument",
                                !.documentId = documentId, !.userId = userId]]
               /\ Finish(p, Raise(ReprocessFailed, NotFound))
               /\ UNCHANGED work
  /\ UNCHANGED <<documents, chunkRows, nextId, probe>>

\* db.delete(documentChunk).where(eq(documentChunk.documentId, documentId))
ReprocessDeleteChunks(p) ==
  /\ pc[p] = "deleteChunks"
  /\ \E ok \in BOOLEAN :
       IF ok
       THEN /\ chunkRows' = ChunksWithout(args[p].documentId)
            /\ work' = [work EXCEPT ![p].removed =
                          Len(chunkRows) - Len(ChunksWithout(args[p].documentId))]
            /\ pc' = [pc EXCEPT ![p] = "updateContent"]
            /\ UNCHANGED ret
       ELSE /\ Finish(p, Raise(ReprocessFailed, StatementFailed))
            /\ UNCHANGED <<chunkRows, work>>
  /\ UNCHANGED <<documents, nextId, args, probe>>

\* The content of the documents once reprocessDocument's update has run.
WithContent(id, content) ==
  [k \in 1..Len(documents) |->
     IF documents[k].id = id THEN [documents[k] EXCEPT !.content = content]
     ELSE documents[k]]

\* db.update(knowledgeDocument).set({ content }).where(eq(id, documentId)),
\* then processDocument(Buffer.from(content), document.filename, 'txt') up to
\* the split.
ReprocessUpdateContent(p) ==
  /\ pc[p] = "updateContent"
  /\ \E ok \in BOOLEAN :
       IF ok
       THEN LET content == Placeholder(args[p].filename)
                x == ExtractContent(content, "txt", "ready")
                texts == SplitText(x.content)
            IN /\ documents' = WithContent(args[p].documentId, content)
               /\ work' = [work EXCEPT ![p].content = x.content, ![p].texts = texts,
                                       ![p].i = 1]
               /\ IF texts = <<>>
                  THEN Finish(p, Ok(<<>>))
                  ELSE pc' = [pc EXCEPT ![p] = "embed"] /\ UNCHANGED ret
       ELSE /\ Finish(p, Raise(ReprocessFailed, StatementFailed))
            /\ UNCHANGED <<documents, work>>
  /\ UNCHANGED <<chunkRows, nextId, args, probe>>

\* The request is answered; the next one may come.
Return(p) ==
  /\ pc[p] = "done"
  /\ pc' = [pc EXCEPT ![p] = "idle"]
  /\ args' = [args EXCEPT ![p] = NoArgs]
  /\ work' = [work EXCEPT ![p] = NoWork]
  /\ ret' = [ret EXCEPT ![p] = NoRet]
  /\ UNCHANGED <<documents, chunkRows, nextId, probe>>

\* ------------------------------------------------------------ search tool
\* The default of the limit of the tool's input.
ToolDefaultLimit == 10

\* ToolResponse that reports success for a search without a result.
ToolResponseAlways(r) ==
  IF r.outcome = "error"
  THEN [NoResponse EXCEPT !.message = "Error searching documents", !.error = r.error]
  ELSE [NoResponse EXCEPT !.success = TRUE,
          !.message = "Found detailed information",
          !.totalChunks = Len(r.result),
          !.results = [j \in 1..Len(r.result) |->
                         [rank |-> j, content |-> r.result[j].chunk.content,
                          source |-> r.result[j].document.title,
                          filename |-> r.result[j].document.filename,
                          similarity |-> r.result[j].similarity]]]

\* What execute returns once searchSimilar has returned or raised r; the
\* similarity, already a percentage here, is Math.round(similarity * 100).
ToolResponse(r) ==
  IF r.outcome = "error"
  THEN [NoResponse EXCEPT !.message = "Error searching documents", !.error = r.error]
  ELSE IF Len(r.result) = 0
  THEN [NoResponse EXCEPT
          !.message = "No relevant information found in uploaded documents."]
  ELSE [NoResponse EXCEPT !.success = TRUE,
          !.message = "Found detailed information",
          !.totalChunks = Len(r.result),
          !.results = [j \in 1..Len(r.result) |->
                         [rank |-> j, content |-> r.result[j].chunk.content,
                          source |-> r.result[j].document.title,
                          filename |-> r.result[j].document.filename,
                          similarity |-> r.result[j].similarity]]]

\* searchKnowledgeTool.execute({ query, limit }): result and logged keep what
\* searchSimilar returned and the error it raised.
Execute(p) ==
  /\ pc[p] = "idle"
  /\ \E query \in Queries, limit \in {1, ToolDefaultLimit},
        session \in Users \cup {NoUser}, ok \in BOOLEAN :
       /\ args' = [args EXCEPT ![p] =
                     [NoArgs EXCEPT !.op = "execute", !.query = query,
                        !.limit = limit, !.threshold = ToolThreshold,
                        !.userId = session,
                        !.request = [NoRequest EXCEPT !.method = "tool",
                                                      !.session = session]]]
       /\ IF session = NoUser
          THEN /\ Finish(p, [Ok(<<>>) EXCEPT !.response =
                               [NoResponse EXCEPT !.message = "Authentication required"]])
               /\ UNCHANGED work
          ELSE \E e \in {EmbedQuery(query, backend) : backend \in Backends} :
               \E r \in SelectSimilar(e.embedding, limit, ToolThreshold, session, ok) :
                 /\ work' = [work EXCEPT ![p] =
                               [NoWork EXCEPT !.embedding = e.embedding,
                                              !.exhausted = <<e.exhausted>>]]
                 /\ Finish(p, [Ok(r.result) EXCEPT !.logged = r.error,
                                                   !.response = ToolResponse(r)])
  /\ UNCHANGED <<documents, chunkRows, nextId, probe>>

\* ------------------------------------------------------------ endpoints
\* GET /api/knowledge/documents
GET(p) ==
  /\ pc[p] = "idle"
  /\ \E session \in Users \cup {NoUser} :
       LET S == {k \in 1..Len(documents) : documents[k].userId = session}
           key(k) == documents[k].uploadedAt
       IN /\ args' = [args EXCEPT ![p] =
                        [NoArgs EXCEPT !.op = "GET", !.userId = session,
                           !.request = [NoRequest EXCEPT !.method = "GET",
                                                         !.session = session]]]
          /\ IF session = NoUser
             THEN Finish(p, [Ok(<<>>) EXCEPT !.response =
                               [NoResponse EXCEPT !.status = 401,
                                                  !.error = "Unauthorized"]])
             ELSE \E order \in Orderings(S, [k \in S |-> key(k)], Len(documents)) :
                    Finish(p, [Ok(<<>>) EXCEPT !.response =
                      [NoResponse EXCEPT !.status = 200,
                         !.documents = [j \in 1..Len(order) |-> documents[order[j]]]]])
  /\ UNCHANGED <<documents, chunkRows, nextId, work, probe>>

\* const maxSize = 10 * 1024 * 1024
MaxSize == 10 * 1024 * 1024

\* The MIME types of the files sent: the supported ones, an image type that
\* is not, and a type that is no image.
MimeTypes == {"application/pdf", "text/plain", "image/jpeg", "image/png",
              "image/webp", "image/gif", "application/msword"}

\* Supported that takes every image type.
SupportedOrImage(type) ==
  type \in {"application/pdf", "text/plain", "image/jpeg", "image/png",
            "image/webp", "image/gif"}

\* supportedTypes.includes(file.type)
Supported(type) ==
  type \in {"application/pdf", "text/plain", "image/jpeg", "image/png", "image/webp"}

\* getFileType(mimeType), for the types sent; the throw is the other case.
GetFileType(mimeType) ==
  CASE mimeType = "application/pdf" -> "pdf"
    [] mimeType = "text/plain" -> "txt"
    [] mimeType \in {"image/jpeg", "image/png", "image/webp", "image/gif"} -> "image"
    [] OTHER -> "throw"

\* The forms posted: without a file, or with a file of each type, of two
\* bytes, of maxSize bytes and of one more; buffer stands for the bytes.
Forms ==
  {[NoRequest EXCEPT !.method = "POST"]} \cup
  {[NoRequest EXCEPT !.method = "POST", !.present = TRUE, !.type = t, !.size = n] :
     t \in MimeTypes, n \in {2, MaxSize, MaxSize + 1}}

\* The answer of the upload endpoint that ends the request before the core
\* is called.
Reject(p, request, status, error) ==
  /\ args' = [args EXCEPT ![p] = [NoArgs EXCEPT !.op = "POST", !.request = request]]
  /\ Finish(p, [Ok(<<>>) EXCEPT !.response =
                  [NoResponse EXCEPT !.status = status, !.error = error]])
  /\ UNCHANGED work

\* POST /api/knowledge/upload, up to its call of addDocument; title is the
\* title of the form, which always has one here.
POST(p) ==
  /\ pc[p] = "idle"
  /\ \E form \in Forms, session \in Users \cup {NoUser}, title \in Titles :
       LET request == [form EXCEPT !.session = session]
       IN CASE session = NoUser -> Reject(p, request, 401, "Unauthorized")
            [] session # NoUser /\ ~form.present ->
                 Reject(p, request, 400, "No file provided")
            [] session # NoUser /\ form.present /\ ~Supported(form.type) ->
                 Reject(p, request, 400, "Unsupported file type")
            [] session # NoUser /\ form.present /\ Supported(form.type)
               /\ form.size > MaxSize ->
                 Reject(p, request, 400, "File too large")
            [] OTHER ->
                 /\ nextId <= MaxDocs
                 /\ GetFileType(form.type) # "throw"
                 /\ CallAddDocument(p, [buffer |-> <<97, 98>>,
                                        fileType |-> GetFileType(form.type),
                                        extraction |-> "ready"],
                                    title, session, request)
  /\ UNCHANGED <<documents, chunkRows, nextId, probe>>

\* The embedder alone: embedQuery on the text of the probe.
ProbeQuery ==
  /\ probe.path = "none"
  /\ LET e == EmbedQuery(probe.text, probe.backend)
     IN probe' = [probe EXCEPT !.path = "query", !.embedding = e.embedding,
                               !.called = e.called, !.fallback = e.fallback]
  /\ UNCHANGED <<documents, chunkRows, nextId, pc, args, work, ret>>

\* The embedder alone: one turn of the loop of createChunks on the text.
ProbeChunk ==
  /\ probe.path = "none"
  /\ LET c == CreateChunk(probe.text, 0, 1, FileName("txt"), probe.backend)
     IN probe' = [probe EXCEPT !.path = "chunk", !.embedding = c.chunk.embedding,
                               !.called = c.called,
                               !.fallback = c.chunk.metadata.fallback]
  /\ UNCHANGED <<documents, chunkRows, nextId, pc, args, work, ret>>

Step(p) ==
  \/ AddDocument(p)
  \/ Embed(p)
  \/ InsertDocument(p)
  \/ InsertChunk(p)
  \/ DeleteDocument(p)
  \/ GetDocuments(p)
  \/ GetDocumentChunks(p)
  \/ SearchSimilar(p)
  \/ ReprocessDocument(p)
  \/ ReprocessDeleteChunks(p)
  \/ ReprocessUpdateContent(p)
  \/ Return(p)

\* One request at a time.
Next == Step("p1")

\* The requests that come through the search tool and the endpoints.
Api(p) ==
  \/ Execute(p)
  \/ GET(p)
  \/ POST(p)

Spec == Init /\ [][Next]_vars

\* The embedder on every text and every behaviour of the backend.
InitEmbed ==
  /\ Init!2 /\ Init!3 /\ Init!4 /\ Init!5 /\ Init!6 /\ Init!7 /\ Init!8
  /\ \E text \in EmbedTexts, backend \in Backends :
       probe = [NoProbe EXCEPT !.text = text, !.backend = backend]

NextEmbed == ProbeQuery \/ ProbeChunk

SpecEmbed == InitEmbed /\ [][NextEmbed]_vars

\* One request at a time, to the knowledge base, the tool or an endpoint.
NextApi == Step("p1") \/ Api("p1")

SpecApi == Init /\ [][NextApi]_vars

\* Two requests at a time: the handlers are async functions and every
\* statement is awaited, so the steps of two requests interleave.  Concurrent
\* requests are the writers and the list of documents, on the inputs of
\* ConcInputs: a text file of two chunks, one owner, the embeddings of the
\* hash.
ConcInputs(p) ==
  /\ args[p].userId \in {NoUser, "U1"}
  /\ args[p].op = "addDocument" =>
       args[p].fileType = "txt" /\ args[p].buffer = <<97, 98, SP, 99, 100>>
  /\ args[p].op \in {"deleteDocument", "reprocessDocument"} =>
       args[p].documentId <= MaxDocs
  /\ \A j \in 1..Len(work[p].chunks) : work[p].chunks[j].embedding.src = "hash"

StepConc(p) ==
  \/ AddDocument(p) /\ ConcInputs(p)'
  \/ Embed(p) /\ ConcInputs(p)'
  \/ InsertDocument(p) /\ ConcInputs(p)'
  \/ InsertChunk(p) /\ ConcInputs(p)'
  \/ DeleteDocument(p) /\ ConcInputs(p)'
  \/ GetDocuments(p) /\ ConcInputs(p)'
  \/ ReprocessDocument(p) /\ ConcInputs(p)'
  \/ ReprocessDeleteChunks(p) /\ ConcInputs(p)'
  \/ ReprocessUpdateContent(p) /\ ConcInputs(p)'
  \/ Return(p) /\ ConcInputs(p)'

NextConc == \E p \in Procs : StepConc(p)

SpecConc == Init /\ [][NextConc]_vars

\* ------------------------------------------------------------ claims
Done(p, op) == pc[p] = "done" /\ args[p].op = op

\* The chunk rows of a document, in insertion order.
RowsOf(id) == LET mine(c) == c.documentId = id IN SelectSeq(chunkRows, mine)

\* C1: once addDocument has ended, returned or raised, the store holds the
\* new document row with every chunk built for it, or neither the row nor
\* any chunk of it.
C1_AddDocumentAllOrNothing ==
  \A p \in Procs :
    Done(p, "addDocument") =>
      LET d == work[p].docId
          built == work[p].chunks
      IN \/ d \in DocIds /\ RowsOf(d) = [i \in 1..Len(built) |-> ChunkRow(d, built[i])]
         \/ d \notin DocIds /\ RowsOf(d) = <<>>

Above(p) ==
  {k \in 1..Len(chunkRows) :
     /\ \E d \in 1..Len(documents) :
          /\ documents[d].id = chunkRows[k].documentId
          /\ args[p].userId \in Users => documents[d].userId = args[p].userId
     /\ Similarity(chunkRows[k].embedding, work[p].embedding) > args[p].threshold}

\* C3: the result of a search that returned is the owner's chunks whose
\* similarity is above the threshold, by similarity descending, cut to
\* limit: min(limit, matches) results, each a different matching row with
\* its similarity, none ranked before a more similar one, and no row left
\* out that is more similar than a row returned.
C3_SearchIsReference ==
  \A p \in Procs :
    Done(p, "searchSimilar") /\ ret[p].outcome = "ok" =>
      LET res == ret[p].result
          q == work[p].embedding
          n == Len(res)
      IN /\ n = Min(args[p].limit, Cardinality(Above(p)))
         /\ \E f \in [1..n -> Above(p)] :
              /\ \A i, j \in 1..n : i # j => f[i] # f[j]
              /\ \A j \in 1..n :
                   /\ res[j].chunk = chunkRows[f[j]]
                   /\ res[j].similarity = Similarity(chunkRows[f[j]].embedding, q)
              /\ \A k \in Above(p) \ {f[j] : j \in 1..n} : \A j \in 1..n :
                   Similarity(chunkRows[k].embedding, q) <= res[j].similarity
         /\ \A j \in 1..n : res[j].similarity > args[p].threshold
         /\ \A i, j \in 1..n : i < j => res[i].similarity >= res[j].similarity

\* A search returned one result, the more similar of two matching chunks,
\* which is not the one inserted first.
C3_Witness ==
  \E p \in Procs :
    /\ Done(p, "searchSimilar") /\ ret[p].outcome = "ok"
    /\ args[p].limit = 1 /\ Cardinality(Above(p)) = 2
    /\ Len(ret[p].result) = 1 /\ ret[p].result[1].chunk.chunkIndex = 1

\* C4: once deleteDocument has removed a document of its owner no chunk
\* row of it is left; getDocuments lists only rows of the store, so never
\* the id of a deleted document, and getDocumentChunks of an id that is
\* not in the store returns the empty sequence.
C4_DeleteCascades ==
  \A p \in Procs :
    /\ Done(p, "deleteDocument") /\ ret[p].deleted > 0 =>
         /\ ret[p].outcome = "ok"
         /\ args[p].documentId \notin DocIds
         /\ RowsOf(args[p].documentId) = <<>>
    /\ Done(p, "getDocuments") =>
         \A j \in 1..Len(ret[p].result) :
           \E k \in 1..Len(documents) :
             documents[k] = ret[p].result[j] /\ documents[k].userId = args[p].userId
    /\ Done(p, "getDocumentChunks") /\ args[p].documentId \notin DocIds =>
         ret[p].outcome = "ok" /\ ret[p].result = <<>>

\* A delete removed a document together with chunk rows of it.
C4_Witness ==
  \E p \in Procs :
    Done(p, "deleteDocument") /\ ret[p].deleted = 1 /\ ret[p].cascaded > 0

\* C5: a deleteDocument raises no error; when no document has the id and
\* the owner given it leaves the documents and the chunk rows as they
\* were; and after any deleteDocument no document has the id and the owner
\* given, so that the same call once more changes nothing.
C5_DeleteForgiving ==
  [][\A p \in Procs :
       pc[p] = "idle" /\ pc'[p] = "done" /\ args'[p].op = "deleteDocument" =>
         LET id == args'[p].documentId
             userId == args'[p].userId
         IN /\ ret'[p].outcome = "ok"
            /\ (\A k \in 1..Len(documents) :
                  ~(documents[k].id = id /\ documents[k].userId = userId))
               => documents' = documents /\ chunkRows' = chunkRows
            /\ \A k \in 1..Len(documents') :
                 ~(documents'[k].id = id /\ documents'[k].userId = userId)]_vars

\* A delete of a document of another owner ended and removed nothing: the
\* document and a chunk of it are in the store.
C5_Witness ==
  \E p \in Procs :
    /\ Done(p, "deleteDocument") /\ ret[p].deleted = 0
    /\ args[p].documentId \in DocIds
    /\ DocOf(args[p].documentId).userId # args[p].userId
    /\ RowsOf(args[p].documentId) # <<>>

\* C6: a reprocessDocument that finds no document with the id and the
\* owner given raises the error that tells so ("Document not found or
\* access denied").
C6_ReprocessNotFound ==
  \A p \in Procs :
    Done(p, "reprocessDocument") /\ ret[p].logged = NotFound =>
      ret[p].outcome = "error" /\ ret[p].error = NotFound

\* C7: once reprocessDocument has returned, the content of the document is
\* the placeholder naming its filename, its chunk rows are the chunks of
\* the split of the placeholder, in order, each with an embedding the
\* embedder can give for its text, and the other columns of the document
\* are those it had.
C7_ReprocessReplaces ==
  \A p \in Procs :
    Done(p, "reprocessDocument") /\ ret[p].outcome = "ok" =>
      LET id == args[p].documentId
          old == work[p].document
          texts == SplitText(Placeholder(old.filename))
          rows == RowsOf(id)
      IN /\ id \in DocIds
         /\ old.id = id /\ old.userId = args[p].userId
         /\ DocOf(id) = [old EXCEPT !.content = Placeholder(old.filename)]
         /\ Len(rows) = Len(texts)
         /\ \A j \in 1..Len(rows) :
              \E backend \in Backends :
                rows[j] = ChunkRow(id, CreateChunk(texts[j], j - 1, Len(texts),
                                                   old.filename, backend).chunk)

\* A reprocess returned for a document that had other content and chunk
\* rows, which the reprocess removed.
C7_Witness ==
  \E p \in Procs :
    /\ Done(p, "reprocessDocument") /\ ret[p].outcome = "ok"
    /\ work[p].removed > 0
    /\ work[p].document.content # Placeholder(work[p].document.filename)
    /\ RowsOf(args[p].documentId) # <<>>

\* C8: the vector embedQuery returns, and the vector of a chunk of
\* createChunks, has 384 components.
C8_EmbedDimension ==
  probe.path # "none" => probe.embedding.dim = EmbeddingDim

\* C9: the models are called in the order of the list, each after the
\* failure of all before it; the first that returns ends the calls and its
\* vector (the first row of a nested one) is the embedding; the hash-based
\* embedding of the text is used when, and only when, every model failed.
C9_ModelsInOrder ==
  probe.path # "none" =>
    LET n == Len(probe.called)
    IN /\ n \in 1..Len(Models)
       /\ \A j \in 1..n : probe.called[j] = j
       /\ \A j \in 1..(n - 1) : ~probe.backend[j].ok
       /\ n < Len(Models) => probe.backend[n].ok
       /\ probe.fallback <=> \A j \in 1..Len(Models) : ~probe.backend[j].ok
       /\ probe.fallback => probe.embedding = CreateHashBasedEmbedding(probe.text)
       /\ ~probe.fallback => /\ probe.backend[n].ok
                             /\ probe.embedding = probe.backend[n].rows[1]

\* The first model failed, the second returned, the third, which would
\* have returned too, was not called.
C9_Witness ==
  /\ probe.path = "chunk"
  /\ probe.called = <<1, 2>>
  /\ probe.backend[3].ok
  /\ probe.embedding = probe.backend[2].rows[1]

\* C10: in the rows an addDocument that returned has stored, a chunk for
\* which every model failed has fallback = true and the hash-based
\* embedding of its own content, and every other chunk has the vector of
\* a model and no fallback flag.
C10_FallbackPerChunk ==
  \A p \in Procs :
    Done(p, "addDocument") /\ ret[p].outcome = "ok" =>
      LET rows == RowsOf(work[p].docId)
      IN /\ Len(rows) = Len(work[p].exhausted)
         /\ \A j \in 1..Len(rows) :
              /\ rows[j].content = work[p].texts[j]
              /\ IF work[p].exhausted[j]
                 THEN /\ rows[j].metadata.fallback
                      /\ rows[j].embedding = CreateHashBasedEmbedding(rows[j].content)
                 ELSE /\ ~rows[j].metadata.fallback
                      /\ rows[j].embedding.src = "model"

\* A document of two chunks is stored: every model failed for the first
\* chunk, not for the second.
C10_Witness ==
  \E p \in Procs :
    /\ Done(p, "addDocument") /\ ret[p].outcome = "ok"
    /\ work[p].exhausted = <<TRUE, FALSE>>
    /\ Len(RowsOf(work[p].docId)) = 2
    /\ RowsOf(work[p].docId)[1].metadata.fallback
    /\ ~RowsOf(work[p].docId)[2].metadata.fallback

\* C11: the chunk rows of every document, in insertion order, have the
\* chunkIndex 0, 1, ..., n - 1.
C11_OrdinalsContiguous ==
  \A id \in DocumentIds :
    \A j \in 1..Len(RowsOf(id)) : RowsOf(id)[j].chunkIndex = j - 1

\* C12: a getDocuments that has returned while an addDocument is between
\* the insert of its document row and the insert of its last chunk has not
\* returned that document.
C12_NoPartialDocumentRead ==
  \A p, q \in Procs :
    Done(p, "getDocuments") /\ args[q].op = "addDocument" /\ pc[q] = "insertChunks" =>
      \A j \in 1..Len(ret[p].result) : ret[p].result[j].id # work[q].docId

\* C19: every chunk row has the documentId of a document row.
C19_NoOrphanChunk ==
  \A k \in 1..Len(chunkRows) : chunkRows[k].documentId \in DocIds

\* The document was deleted after a reprocessDocument had selected it: the
\* insert of the chunk of the placeholder was refused, and no chunk row of
\* the document is in the store.
C19_Witness ==
  \E p \in Procs :
    /\ Done(p, "reprocessDocument") /\ ret[p].logged = ForeignKey
    /\ work[p].docId \notin DocIds
    /\ \E q \in Procs \ {p} : Done(q, "deleteDocument") /\ ret[q].deleted = 1

\* C18: when reprocessDocument raises after its select has found the
\* document, the document has the content and the chunk rows it had when
\* it was selected.
C18_FailedReprocessKeeps ==
  \A p \in Procs :
    /\ Done(p, "reprocessDocument") /\ ret[p].outcome = "error"
    /\ work[p].document # NoDocument
    => /\ DocOf(work[p].docId) = work[p].document
       /\ RowsOf(work[p].docId) = work[p].before

\* addDocument of a txt file of no bytes.
EmptyTxt(p) ==
  args[p].op = "addDocument" /\ args[p].fileType = "txt" /\ args[p].buffer = <<>>

\* C16: addDocument of a txt file of no bytes extracts the empty text,
\* splits it into no chunk and never comes to call the embedder or to
\* insert a chunk; the step that ends it adds one document row, of content
\* "", and no chunk row, unless the insert of the document itself fails.
C16_EmptyTxt ==
  /\ [](\A p \in Procs :
          EmptyTxt(p) =>
            /\ pc[p] \in {"insertDocument", "done"}
            /\ work[p].content = <<>> /\ work[p].texts = <<>>
            /\ work[p].chunks = <<>> /\ work[p].exhausted = <<>>
            /\ Done(p, "addDocument") /\ ret[p].outcome = "error" =>
                 ret[p].logged = StatementFailed)
  /\ [][\A p \in Procs :
          EmptyTxt(p) /\ pc[p] # "done" /\ Done(p, "addDocument")' /\ ret'[p].outcome = "ok" =>
            /\ Len(documents') = Len(documents) + 1
            /\ SubSeq(documents', 1, Len(documents)) = documents
            /\ documents'[Len(documents')].content = <<>>
            /\ documents'[Len(documents')].id = work'[p].docId
            /\ documents'[Len(documents')].userId = args[p].userId
            /\ chunkRows' = chunkRows]_vars

\* The document of a txt file of no bytes is stored, without a chunk row.
C16_Witness ==
  \E p \in Procs :
    /\ EmptyTxt(p) /\ Done(p, "addDocument") /\ ret[p].outcome = "ok"
    /\ work[p].docId \in DocIds
    /\ DocOf(work[p].docId).content = <<>>
    /\ RowsOf(work[p].docId) = <<>>

\* The largest signed integer of 32 bits.
MaxInt32 == (2 ^ 30 - 1) * 2 + 1

\* a + b wrapped to a signed integer of 32 bits, for a and b of 32 bits.
AddWrap(a, b) ==
  CASE a >= 0 /\ b >= 0 /\ a > MaxInt32 - b -> (a - MaxInt32 - 1) + (b - MaxInt32 - 1)
    [] a < 0 /\ b < 0 /\ a < (0 - MaxInt32 - 1) - b -> (a + MaxInt32 + 1) + (b + MaxInt32 + 1)
    [] OTHER -> a + b

\* 31 * h wrapped to 32 bits: h + 2h + 4h + 8h + 16h.
Times31(h) ==
  LET h2 == AddWrap(h, h)
      h4 == AddWrap(h2, h2)
      h8 == AddWrap(h4, h4)
      h16 == AddWrap(h8, h8)
  IN AddWrap(AddWrap(AddWrap(AddWrap(h, h2), h4), h8), h16)

RECURSIVE RollingHash(_, _, _)
\* h := 31 * h + charCode, wrapped after every character, from character i on.
RollingHash(text, i, h) ==
  IF i > Len(text) THEN h
  ELSE RollingHash(text, i + 1, AddWrap(Times31(h), text[i]))

\* C17: the hash of the fallback embedding of a text is the rolling hash
\* h := 31 * h + charCode of its characters, from 0, wrapped to a signed
\* integer of 32 bits after every character; the vector has 384
\* components and is given by that hash alone; the hash of "" is 0.
C17_RollingHash ==
  probe.path # "none" /\ probe.fallback =>
    LET h == RollingHash(probe.text, 1, 0)
    IN /\ probe.embedding.hash = h
       /\ probe.embedding = [dim |-> EmbeddingDim, dir |-> HashDir(h),
                             src |-> "hash", hash |-> h]
       /\ probe.text = <<>> => probe.embedding.hash = 0

\* The fallback embedding of a text of eight characters, whose hash has
\* wrapped to a negative number.
C17_Witness ==
  /\ probe.path # "none" /\ probe.fallback
  /\ Len(probe.text) = 8
  /\ probe.embedding.hash < 0

\* C13: execute returns, it does not raise.  Without a session, when the
\* search raised and when it found nothing, it returns success = false, a
\* message and no results; it returns success = true only when the search
\* returned at least one result, and then results has an entry for each,
\* in the order returned, with the ranks 1, 2, ..., n.
C13_ToolNeverThrows ==
  \A p \in Procs :
    Done(p, "execute") =>
      LET a == ret[p].response
          found == ret[p].result
          raised == ret[p].logged # ""
      IN /\ ret[p].outcome = "ok"
         /\ a.message # ""
         /\ a.success <=> (args[p].userId \in Users /\ ~raised /\ found # <<>>)
         /\ ~a.success => a.results = <<>>
         /\ a.success =>
              /\ Len(a.results) = Len(found)
              /\ \A j \in 1..Len(found) :
                   /\ a.results[j].rank = j
                   /\ a.results[j].content = found[j].chunk.content
                   /\ found[j].document.userId = args[p].userId

\* The search of the tool raised and the tool has answered success = false.
C13_Witness ==
  \E p \in Procs :
    /\ Done(p, "execute") /\ ret[p].logged = SearchFailed
    /\ ~ret[p].response.success /\ ret[p].response.results = <<>>

\* C14: every document of the answer of GET /api/knowledge/documents has
\* no other field than id, title, filename, fileType and uploadedAt.
C14_ListOnlyMetadata ==
  \A p \in Procs :
    Done(p, "GET") =>
      \A j \in 1..Len(ret[p].response.documents) :
        DOMAIN ret[p].response.documents[j] \subseteq
          {"id", "title", "filename", "fileType", "uploadedAt"}

\* A request to the upload endpoint passes the checks: it has a session,
\* a file of a supported MIME type and of at most 10 MiB.
Passes(request) ==
  /\ request.session \in Users
  /\ request.present
  /\ request.type \in {"application/pdf", "text/plain", "image/jpeg", "image/png",
                        "image/webp"}
  /\ request.size <= 10485760

\* C15: a request to the upload endpoint that does not pass the checks is
\* answered 401 or 400 in the step that receives it, without a call of
\* addDocument and with the store as it was; only a request that passes
\* them calls addDocument, for the user of the session.
C15_ChecksBeforeCore ==
  /\ [](\A p \in Procs :
          /\ args[p].op = "POST" => pc[p] = "done" /\ ~Passes(args[p].request)
          /\ args[p].op = "addDocument" /\ args[p].request.method = "POST" =>
               Passes(args[p].request) /\ args[p].userId = args[p].request.session)
  /\ [][\A p \in Procs :
          pc[p] = "idle" /\ args'[p].request.method = "POST"
          /\ ~Passes(args'[p].request) =>
            /\ args'[p].op = "POST" /\ pc'[p] = "done"
            /\ ret'[p].response.status \in {400, 401}
            /\ work'[p] = NoWork
            /\ UNCHANGED <<documents, chunkRows, nextId>>]_vars

\* An upload of one byte more than 10 MiB by a user with a session was
\* answered 400 while the store held a document.
C15_Witness ==
  \E p \in Procs :
    /\ Done(p, "POST") /\ ret[p].response.status = 400
    /\ args[p].request.session \in Users
    /\ args[p].request.type = "text/plain"
    /\ args[p].request.size = 10485761
    /\ documents # <<>>

====
